---- MODULE Spec2Model ----
(***************************************************************************)
(* A model of mkt.py (mkt - MaKe a Template): the escape-aware scanner of  *)
(* TemplateParser, its Preprocessor, TemplateParser.parse and              *)
(* Template.execute_options.                                               *)
(*                                                                         *)
(* A Python string is a sequence of one-character strings.  Indices in the *)
(* operators are Python's (0-based); the helpers At and Slice translate to *)
(* TLA+ sequences (1-based).                                               *)
(***************************************************************************)
EXTENDS Integers, Sequences, FiniteSets, TLC

VARIABLES pc, args, ret, template

vars == <<pc, args, ret, template>>

(***************************************************************************)
(* Bounds of the model.                                                    *)
(***************************************************************************)
MaxEscLen == 3
MaxHayLen == 4
MaxStart == 2
MaxSplitLen == 5
MaxSplits == 2
MaxStripLen == 5
MaxLines == 3
MaxTextLen == 5
MaxOps == 2
MaxRequest == 2

(***************************************************************************)
(* Characters.                                                             *)
(***************************************************************************)
BS == "\\"
NL == "\n"
TAB == "\t"
CR == "\r"
VT == "\\v"
FF == "\f"

\* TemplateParser.ESCAPABLE = "\t\n\v\r #(:=>\\"
ESCAPABLE == {TAB, NL, VT, CR, " ", "#", "(", ":", "=", ">", BS}

\* TemplateParser.RESERVED = "\t\n\v\r #(),:=>\\"
RESERVED == {TAB, NL, VT, CR, " ", "#", "(", ")", ",", ":", "=", ">", BS}

\* the default of strip_unescaped's to_strip, "\t\n\v\r ", as set(to_strip)
WHITESPACE == {TAB, NL, VT, CR, " "}

\* os.linesep (POSIX)
linesep == <<NL>>

\* str.isspace() of one character
isspace(c) == c \in {TAB, NL, VT, FF, CR, " "}

(***************************************************************************)
(* Python's str primitives.                                                *)
(***************************************************************************)
Min(S) == CHOOSE x \in S : \A y \in S : x <= y

Str(alphabet, n) == UNION {[1..k -> alphabet] : k \in 0..n}

\* string[i]
At(string, i) == string[i + 1]

\* string[a:b] for 0 <= a, 0 <= b
Slice(string, a, b) ==
    SubSeq(string, a + 1, IF b < Len(string) THEN b ELSE Len(string))

\* haystack.find(needle, start, end)
find(haystack, needle, start, end) ==
    LET stop == IF end < Len(haystack) THEN end ELSE Len(haystack)
        hits == {i \in start..(stop - Len(needle)) :
                    \A k \in 1..Len(needle) : haystack[i + k] = needle[k]}
    IN  IF hits = {} THEN -1 ELSE Min(hits)

\* list.insert(i, c)
Insert(chars, i, c) ==
    SubSeq(chars, 1, i) \o <<c>> \o SubSeq(chars, i + 1, Len(chars))

\* del chars[i]
Delete(chars, i) == SubSeq(chars, 1, i) \o SubSeq(chars, i + 2, Len(chars))

RECURSIVE lstrip(_, _)
\* string.lstrip(chars)
lstrip(string, chars) ==
    IF string # <<>> /\ Head(string) \in chars
    THEN lstrip(Tail(string), chars)
    ELSE string

RECURSIVE rstrip(_, _)
\* string.rstrip(chars)
rstrip(string, chars) ==
    IF string # <<>> /\ string[Len(string)] \in chars
    THEN rstrip(SubSeq(string, 1, Len(string) - 1), chars)
    ELSE string

\* string.strip()
strip(string) ==
    rstrip(lstrip(string, {TAB, NL, VT, FF, CR, " "}),
           {TAB, NL, VT, FF, CR, " "})

RECURSIVE join(_, _)
\* sep.join(strings)
join(sep, strings) ==
    IF strings = <<>> THEN <<>>
    ELSE IF Len(strings) = 1 THEN strings[1]
    ELSE strings[1] \o sep \o join(sep, Tail(strings))

(***************************************************************************)
(* TemplateParser.escape                                                   *)
(***************************************************************************)
RECURSIVE escape_loop(_, _)
\* for i in range(len(chars) - 1, -1, -1)
escape_loop(chars, i) ==
    IF i < 0 THEN chars
    ELSE escape_loop(IF At(chars, i) \in ESCAPABLE
                     THEN Insert(chars, i, BS)
                     ELSE chars, i - 1)

escape(line) ==
    IF line = <<>> THEN line ELSE escape_loop(line, Len(line) - 1)

(***************************************************************************)
(* TemplateParser.unescape                                                 *)
(***************************************************************************)
RECURSIVE unescape_loop(_, _)
\* while i < len(chars) - 1: a deletion leaves i where it is
unescape_loop(chars, i) ==
    IF i < Len(chars) - 1
    THEN IF At(chars, i) = BS /\ At(chars, i + 1) \in ESCAPABLE
         THEN unescape_loop(Delete(chars, i), i)
         ELSE unescape_loop(chars, i + 1)
    ELSE chars

unescape(line) ==
    IF Len(line) < 2 THEN line ELSE unescape_loop(line, 0)

(***************************************************************************)
(* TemplateParser.find_unescaped                                           *)
(***************************************************************************)
RECURSIVE find_unescaped_loop(_, _, _, _, _, _)
\* while index > -1: the last argument of the inner find is its END
find_unescaped_loop(needle, haystack, start, escaped_needle, offset, index) ==
    IF index > -1
    THEN IF \/ find(haystack, escaped_needle, start, Len(haystack)) = -1
            \/ index # find(haystack, escaped_needle, start, Len(haystack))
                           + offset
         THEN index
         ELSE find_unescaped_loop(needle, haystack, start, escaped_needle,
                  offset, find(haystack, needle, index + Len(needle), start))
    ELSE index

find_unescaped(needle, haystack, start) ==
    IF needle = <<>> THEN 0
    ELSE IF Len(escape(<<needle[1]>>)) - 1 = 0
    THEN find(haystack, needle, start, Len(haystack))
    ELSE find_unescaped_loop(needle, haystack, start, escape(needle),
             Len(escape(<<needle[1]>>)) - 1,
             find(haystack, needle, start, Len(haystack)))

(***************************************************************************)
(* TemplateParser.split_unescaped                                          *)
(* The result is [ok |-> TRUE, split |-> fields] or, for the ValueError,   *)
(* [ok |-> FALSE, split |-> <<>>].                                         *)
(***************************************************************************)
RECURSIVE split_indices_all(_, _, _, _)
\* split_indices that does not stop at nsplits occurrences
split_indices_all(needle, haystack, nsplits, indices) ==
    IF indices[Len(indices)] # -1
    THEN split_indices_all(needle, haystack, nsplits,
             Append(indices, find_unescaped(needle, haystack,
                        indices[Len(indices)] + Len(needle))))
    ELSE indices

RECURSIVE split_indices(_, _, _, _)
\* while not len(indices) == nsplits and not indices[-1] == -1
split_indices(needle, haystack, nsplits, indices) ==
    IF Len(indices) # nsplits /\ indices[Len(indices)] # -1
    THEN split_indices(needle, haystack, nsplits,
             Append(indices, find_unescaped(needle, haystack,
                        indices[Len(indices)] + Len(needle))))
    ELSE indices

RECURSIVE split_fields(_, _, _, _)
\* for i in indices: split.append(haystack[start:i]); start = i + len(needle)
split_fields(needle, haystack, indices, start) ==
    IF indices = <<>> THEN <<>>
    ELSE <<Slice(haystack, start, Head(indices))>>
         \o split_fields(needle, haystack, Tail(indices),
                         Head(indices) + Len(needle))

\* if indices[-1] == -1: indices.pop()
split_pop(indices) ==
    IF indices[Len(indices)] = -1
    THEN SubSeq(indices, 1, Len(indices) - 1)
    ELSE indices

\* the checks and the fields, on the indices found
split_around(needle, haystack, nsplits, indices) ==
    IF nsplits >= 0 /\ Len(indices) # nsplits
    THEN [ok |-> FALSE, split |-> <<>>]
    ELSE IF indices = <<>>
    THEN [ok |-> TRUE, split |-> <<haystack>>]
    ELSE [ok |-> TRUE,
          split |-> split_fields(needle, haystack, indices, 0)
              \o <<Slice(haystack, indices[Len(indices)] + Len(needle),
                         Len(haystack))>>]

split_unescaped(needle, haystack, nsplits) ==
    split_around(needle, haystack, nsplits,
        split_pop(split_indices(needle, haystack, nsplits,
                      <<find_unescaped(needle, haystack, 0)>>)))

(***************************************************************************)
(* TemplateParser.strip_unescaped; to_strip is set(to_strip)               *)
(***************************************************************************)
RECURSIVE strip_front(_, _, _, _)
\* for i in range(1, len(string))
strip_front(string, to_strip, i, front_offset) ==
    IF i >= Len(string) THEN front_offset
    ELSE IF At(string, i - 1) = BS \/ At(string, i) \notin to_strip
    THEN front_offset
    ELSE strip_front(string, to_strip, i + 1, front_offset + 1)

RECURSIVE strip_back(_, _, _, _, _)
\* for i in range(len(string) - 2, front_offset + 1, -1)
strip_back(string, to_strip, i, stop, back_offset) ==
    IF i <= stop THEN back_offset
    ELSE IF At(string, i) = BS \/ At(string, i + 1) \notin to_strip
    THEN back_offset
    ELSE strip_back(string, to_strip, i - 1, stop, back_offset + 1)

\* the two returns, on the left-stripped string and its front_offset
strip_cut(string, to_strip, front_offset) ==
    IF front_offset = Cardinality(to_strip) - 1
    THEN Slice(string, front_offset, Len(string))
    ELSE Slice(string, front_offset,
               Len(string) - strip_back(string, to_strip, Len(string) - 2,
                                        front_offset + 1, 0))

\* front_offset, on the left-stripped string
strip_lstripped(string, to_strip) ==
    strip_cut(string, to_strip, strip_front(string, to_strip, 1, 0))

strip_unescaped(string, to_strip) ==
    IF Len(string) < 2 THEN string
    ELSE strip_lstripped(lstrip(string, to_strip), to_strip)

(***************************************************************************)
(* Python dicts, as functions.                                             *)
(***************************************************************************)
EmptyDict == [k \in {} |-> <<>>]

\* d.update(e)
update(d, e) ==
    [k \in DOMAIN d \cup DOMAIN e |-> IF k \in DOMAIN e THEN e[k] ELSE d[k]]

(***************************************************************************)
(* TemplateParser.Preprocessor                                             *)
(***************************************************************************)
uncomment_at(line, comment_index) ==
    IF comment_index > -1 THEN Slice(line, 0, comment_index) ELSE line

uncomment(line) == uncomment_at(line, find_unescaped(<<"#">>, line, 0))

\* {macro: definition}, or {} on the ValueError of split_unescaped
macro_dict(r) ==
    IF r.ok THEN [k \in {r.split[1]} |-> r.split[2]] ELSE EmptyDict

extract_macro(line) == macro_dict(split_unescaped(<<"=">>, line, 1))

RECURSIVE expand_macros_loop(_, _, _, _, _)

\* one turn of the loop, on the ')' found and the stripped text before it
expand_macro(line, macros, components, last_end, start, end, macro) ==
    IF end = -1
    THEN join(<<>>, Append(components, Slice(line, last_end + 1, Len(line))))
    ELSE IF macro \in DOMAIN macros
    THEN expand_macros_loop(line, macros,
             components \o <<Slice(line, last_end + 1, start), macros[macro]>>,
             end, find_unescaped(<<"(">>, line, start + 1))
    ELSE expand_macros_loop(line, macros, components, last_end,
             find_unescaped(<<"(">>, line, start + 1))

\* the ')' after start, and what stands between the two
expand_macro_end(line, macros, components, last_end, start, end) ==
    expand_macro(line, macros, components, last_end, start, end,
                 strip(Slice(line, start + 1, end)))

\* while start > -1
expand_macros_loop(line, macros, components, last_end, start) ==
    IF start > -1
    THEN expand_macro_end(line, macros, components, last_end, start,
                          find(line, <<")">>, start + 1, Len(line)))
    ELSE join(<<>>, Append(components, Slice(line, last_end + 1, Len(line))))

expand_macros(line, macros) ==
    expand_macros_loop(line, macros, <<>>, -1,
                       find_unescaped(<<"(">>, line, 0))

RECURSIVE preprocess_macros(_, _, _)
\* the first loop of preprocess, the macro table: macros.update(macro_def)
\* for every line, in order (an empty macro_def updates nothing)
preprocess_macros(lines, i, macros) ==
    IF i >= Len(lines) THEN macros
    ELSE preprocess_macros(lines, i + 1,
             update(macros, extract_macro(uncomment(At(lines, i)))))

\* the first loop of preprocess, the lines: each line uncommented, the
\* definition lines set to empty lines
preprocess_lines(lines) ==
    [i \in 1..Len(lines) |->
        IF DOMAIN extract_macro(uncomment(lines[i])) # {}
        THEN <<>>
        ELSE uncomment(lines[i])]

\* the second loop of preprocess
preprocess_expand(lines, macros) ==
    [i \in 1..Len(lines) |-> expand_macros(lines[i], macros)]

preprocess(lines) ==
    IF lines = <<>> THEN lines
    ELSE preprocess_expand(preprocess_lines(lines),
                           preprocess_macros(lines, 0, EmptyDict))

(***************************************************************************)
(* Template, TemplateOption, TemplatePath                                  *)
(***************************************************************************)
Template(ops, paths) == [ops |-> ops, paths |-> paths]

\* TemplateOption(script, *names): self.names = set(names)
TemplateOption(script, names) ==
    [names |-> {names[k] : k \in 1..Len(names)}, script |-> script]

TemplatePath(src, dest) == [src |-> src, dest |-> dest]

hasname(op, name) == name \in op.names

(***************************************************************************)
(* TemplateParser.parse                                                    *)
(* The result is [raised |-> "", template |-> Template] or, for the        *)
(* SyntaxError, [raised |-> "SyntaxError", template |-> Template((), ())]. *)
(***************************************************************************)
normalize_component(c) == unescape(strip_unescaped(c, WHITESPACE))

RECURSIVE parse_script(_, _, _)
\* the inner loop of the option branch; i on return is the last line of the
\* block
parse_script(lines, i, script) ==
    IF i < Len(lines)
    THEN LET line == At(lines, i)
         IN  IF line # <<>>
             THEN IF ~isspace(At(line, 0))
                  THEN [i |-> i - 1, script |-> script]
                  ELSE parse_script(lines, i + 1, Append(script, line))
             ELSE parse_script(lines, i + 1, script)
    ELSE [i |-> i, script |-> script]

RECURSIVE parse_lines(_, _, _, _)

\* the option branch: the names, the block of script lines, the new Option
parse_option(lines, ops, paths, names, block) ==
    parse_lines(lines, block.i + 1,
        Append(ops, TemplateOption(
            join(linesep, [k \in 1..Len(block.script) |->
                              normalize_component(block.script[k])]),
            names)),
        paths)

\* the path branch with an unescaped '>': source, then destination
parse_src_dest(lines, i, ops, paths, src_dest) ==
    parse_lines(lines, i + 1, ops,
        Append(paths, TemplatePath(src_dest[1],
            IF src_dest[2] = <<>> THEN src_dest[1] ELSE src_dest[2])))

\* the path branch without an unescaped '>'
parse_src(lines, i, ops, paths, src) ==
    parse_lines(lines, i + 1, ops, Append(paths, TemplatePath(src, src)))

\* one turn of the loop, on the stripped line
parse_line(lines, i, ops, paths, stripped) ==
    IF stripped = <<>>
    THEN parse_lines(lines, i + 1, ops, paths)
    ELSE IF stripped[Len(stripped)] = ":"
    THEN IF stripped = <<":">>
         THEN parse_lines(lines, i + 1, ops, paths)
         ELSE parse_option(lines, ops, paths,
                  split_unescaped(<<",">>,
                      Slice(stripped, 0, Len(stripped) - 1), -1).split,
                  parse_script(lines, i + 1, <<>>))
    ELSE IF stripped = <<">">>
    THEN parse_lines(lines, i + 1, ops, paths)
    ELSE IF stripped[1] = ">"
    THEN [raised |-> "SyntaxError", template |-> Template(<<>>, <<>>)]
    ELSE IF find_unescaped(<<">">>, stripped, 0) = -1
    THEN parse_src(lines, i, ops, paths, normalize_component(stripped))
    ELSE parse_src_dest(lines, i, ops, paths,
             [k \in 1..2 |-> normalize_component(
                 split_unescaped(<<">">>, stripped, 1).split[k])])

\* while i < len(lines)
parse_lines(lines, i, ops, paths) ==
    IF i >= Len(lines)
    THEN [raised |-> "", template |-> Template(ops, paths)]
    ELSE parse_line(lines, i, ops, paths,
                    strip_unescaped(At(lines, i), WHITESPACE))

parse(string) ==
    parse_lines(preprocess(split_unescaped(linesep, string, -1).split),
                0, <<>>, <<>>)

(***************************************************************************)
(* Template.execute_options                                                *)
(* The result is the script list (the "cd" line, then the selected script  *)
(* bodies) and whether os.system ran it.                                   *)
(***************************************************************************)
RECURSIVE execute_option_last(_, _, _, _, _)
\* execute_option that goes on after a match, so that the last op that has
\* the name is the one appended
execute_option_last(ops, k, name, script, selected) ==
    IF k > Len(ops) THEN [script |-> script, selected |-> selected]
    ELSE LET r == execute_option_last(ops, k + 1, name, script, selected)
         IN  IF r.script # script THEN r
             ELSE IF hasname(ops[k], name) /\ ops[k] \notin selected
             THEN [script |-> Append(script, ops[k].script),
                   selected |-> selected]
             ELSE r

RECURSIVE execute_option(_, _, _, _, _)
\* for op in self.ops: the first op that has the name and is not in
\* selected is appended; selected.union(...) returns a new set that is
\* dropped, so selected is left as it was
execute_option(ops, k, name, script, selected) ==
    IF k > Len(ops) THEN [script |-> script, selected |-> selected]
    ELSE IF hasname(ops[k], name) /\ ops[k] \notin selected
    THEN [script |-> Append(script, ops[k].script), selected |-> selected]
    ELSE execute_option(ops, k + 1, name, script, selected)

RECURSIVE execute_names(_, _, _, _, _)
\* for name in names
execute_names(ops, names, n, script, selected) ==
    IF n > Len(names) THEN script
    ELSE LET r == execute_option(ops, 1, names[n], script, selected)
         IN  execute_names(ops, names, n + 1, r.script, r.selected)

execute_options(self, names, wd) ==
    LET script == execute_names(self.ops, names, 1,
                      <<<<"c", "d", " ", "\"">> \o wd \o <<"\"">>>>, {})
    IN  [script |-> script,
         system |-> Len(script) > 1,
         command |-> IF Len(script) > 1 THEN join(linesep, script) ELSE <<>>]

(***************************************************************************)
(* The escape and unescape calls: escape a line, then unescape the result. *)
(***************************************************************************)
EscapeAlphabet == {"a", " ", "#", ")", ",", BS}

InitEscape ==
    /\ pc = "escape"
    /\ args \in {[line |-> l] : l \in Str(EscapeAlphabet, MaxEscLen)}
    /\ ret = <<>>
    /\ template = Template(<<>>, <<>>)

Escape ==
    /\ pc = "escape"
    /\ ret' = escape(args.line)
    /\ pc' = "unescape"
    /\ UNCHANGED <<args, template>>

Unescape ==
    /\ pc = "unescape"
    /\ ret' = unescape(ret)
    /\ pc' = "unescaped"
    /\ UNCHANGED <<args, template>>

NextEscape == Escape \/ Unescape

SpecEscape == InitEscape /\ [][NextEscape]_vars

(***************************************************************************)
(* The find_unescaped call.                                                *)
(***************************************************************************)
FindAlphabet == {"a", "#", ",", BS}

FindNeedles == {<<>>, <<"#">>, <<",">>}

InitFind ==
    /\ pc = "find_unescaped"
    /\ args \in {a \in [needle : FindNeedles,
                        haystack : Str(FindAlphabet, MaxHayLen),
                        start : 0..MaxStart] : a.start <= Len(a.haystack)}
    /\ ret = -1
    /\ template = Template(<<>>, <<>>)

FindUnescaped ==
    /\ pc = "find_unescaped"
    /\ ret' = find_unescaped(args.needle, args.haystack, args.start)
    /\ pc' = "found"
    /\ UNCHANGED <<args, template>>

NextFind == FindUnescaped

SpecFind == InitFind /\ [][NextFind]_vars

(***************************************************************************)
(* The split_unescaped call, and parse of the same text the way main calls *)
(* it: template = TemplateParser.parse(...), left alone on an exception.   *)
(***************************************************************************)
SplitAlphabet == {"a", ">", ",", BS}

SplitNeedles == {<<">">>, <<",">>}

InitSplit ==
    /\ pc = "split_unescaped"
    /\ args \in [needle : SplitNeedles,
                 haystack : Str(SplitAlphabet, MaxSplitLen),
                 nsplits : -1..MaxSplits]
    /\ ret = [ok |-> TRUE, split |-> <<>>]
    /\ template = Template(<<>>, <<>>)

SplitUnescaped ==
    /\ pc = "split_unescaped"
    /\ ret' = split_unescaped(args.needle, args.haystack, args.nsplits)
    /\ pc' = "split"
    /\ UNCHANGED <<args, template>>

ParseLine ==
    /\ pc = "split"
    /\ LET r == parse(args.haystack)
       IN  /\ template' = r.template
           /\ pc' = IF r.raised = "" THEN "parsed" ELSE r.raised
    /\ UNCHANGED <<args, ret>>

NextSplit == SplitUnescaped \/ ParseLine

SpecSplit == InitSplit /\ [][NextSplit]_vars

(***************************************************************************)
(* The strip_unescaped call.                                               *)
(***************************************************************************)
StripAlphabet == {"a", " ", TAB, BS}

InitStrip ==
    /\ pc = "strip_unescaped"
    /\ args \in [string : Str(StripAlphabet, MaxStripLen),
                 to_strip : {WHITESPACE}]
    /\ ret = <<>>
    /\ template = Template(<<>>, <<>>)

StripUnescaped ==
    /\ pc = "strip_unescaped"
    /\ ret' = strip_unescaped(args.string, args.to_strip)
    /\ pc' = "stripped"
    /\ UNCHANGED <<args, template>>

NextStrip == StripUnescaped

SpecStrip == InitStrip /\ [][NextStrip]_vars

(***************************************************************************)
(* What "unescaped" means in the documentation: an occurrence is escaped   *)
(* when an odd number of backslashes stands right before it.               *)
(***************************************************************************)
RECURSIVE BackslashRun(_, _)
\* the number of consecutive backslashes that end right before string[i]
BackslashRun(string, i) ==
    IF i > 0 /\ At(string, i - 1) = BS
    THEN 1 + BackslashRun(string, i - 1)
    ELSE 0

IsEscapedAt(string, i) == BackslashRun(string, i) % 2 = 1

OccursAt(needle, haystack, i) ==
    /\ i >= 0
    /\ i + Len(needle) <= Len(haystack)
    /\ \A k \in 1..Len(needle) : haystack[i + k] = needle[k]

\* the places of the occurrences of needle in haystack
Occurrences(needle, haystack) ==
    {i \in 0..Len(haystack) : OccursAt(needle, haystack, i)}

\* the places of the unescaped occurrences of needle in haystack
UnescapedOccurrences(needle, haystack) ==
    {i \in Occurrences(needle, haystack) : ~IsEscapedAt(haystack, i)}

\* the first unescaped occurrence at or after start, -1 when there is none
FirstUnescaped(needle, haystack, start) ==
    LET hits == {i \in UnescapedOccurrences(needle, haystack) : i >= start}
    IN  IF hits = {} THEN -1 ELSE Min(hits)

RECURSIVE Unescaped(_)
\* string with one backslash removed before every escapable character
Unescaped(string) ==
    IF Len(string) < 2 THEN string
    ELSE IF string[1] = BS /\ string[2] \in ESCAPABLE
    THEN <<string[2]>> \o Unescaped(SubSeq(string, 3, Len(string)))
    ELSE <<string[1]>> \o Unescaped(Tail(string))

\* string without its leading and its trailing run of unescaped charset
\* characters
Trimmed(string, charset) ==
    LET lead == lstrip(string, charset)
        body == rstrip(lead, charset)
    IN  IF Len(body) < Len(lead) /\ IsEscapedAt(lead, Len(body))
        THEN SubSeq(lead, 1, Len(body) + 1)
        ELSE body

(***************************************************************************)
(* C6  Round trip: unescape(escape(s)) = s for every string s, also when s *)
(* has a backslash right before an escapable character.                    *)
(***************************************************************************)
C6_RoundTrip == pc = "unescaped" => ret = args.line

(***************************************************************************)
(* C9  find_unescaped returns the first unescaped occurrence of needle at  *)
(* or after start, -1 only when there is none, and start for an empty      *)
(* needle.                                                                 *)
(***************************************************************************)
C9_FindFirstUnescaped ==
    pc = "found" =>
        ret = IF args.needle = <<>> THEN args.start
              ELSE FirstUnescaped(args.needle, args.haystack, args.start)

(***************************************************************************)
(* C10  strip_unescaped removes exactly the leading and the trailing run   *)
(* of unescaped charset characters: the middle is kept, an escaped         *)
(* trailing character is kept, a string of charset characters only (of any *)
(* length) yields the empty string.                                        *)
(***************************************************************************)
C10_StripExact == pc = "stripped" => ret = Trimmed(args.string, args.to_strip)

(***************************************************************************)
(* C5 as stated: split_unescaped with nsplits >= 0 fails whenever the      *)
(* number of unescaped occurrences is not exactly nsplits, and succeeds    *)
(* with nsplits + 1 fields when it is.  Stated for the haystacks without a *)
(* backslash, where every occurrence is an unescaped one.                  *)
(***************************************************************************)
C5_SplitExactCount ==
    (pc = "split" /\ args.nsplits >= 0
        /\ Occurrences(<<BS>>, args.haystack) = {}) =>
        /\ ret.ok <=> Cardinality(Occurrences(args.needle, args.haystack))
                          = args.nsplits
        /\ ret.ok => Len(ret.split) = args.nsplits + 1

RECURSIVE Located(_, _, _)
\* the occurrences that successive find_unescaped searches locate
Located(needle, haystack, from) ==
    LET i == find_unescaped(needle, haystack, from)
    IN  IF i = -1 THEN <<>>
        ELSE <<i>> \o Located(needle, haystack, i + Len(needle))

(***************************************************************************)
(* C5 as amended: split_unescaped with nsplits >= 1 fails exactly when     *)
(* fewer than nsplits occurrences are located by find_unescaped (in a      *)
(* haystack without a backslash: when needle occurs fewer than nsplits     *)
(* times), and with nsplits = 0 exactly when one is located.  When it      *)
(* succeeds it returns nsplits + 1 fields that, joined by needle, give the *)
(* haystack back: it splits at the first nsplits occurrences, none of the  *)
(* first nsplits fields holds the needle, and every further occurrence     *)
(* stays in the last field.  So a path line with more than one '>', of     *)
(* ordinary characters otherwise (no backslash, no blank) and not starting *)
(* with '>', parses: its source is the text before the first '>', its      *)
(* destination the text after it.                                          *)
(***************************************************************************)
C5_SplitAtLeast ==
    /\ (pc = "split" /\ args.nsplits >= 0) =>
        LET located == Located(args.needle, args.haystack, 0)
        IN  /\ ret.ok <=> IF args.nsplits = 0 THEN located = <<>>
                          ELSE Len(located) >= args.nsplits
            /\ ret.ok =>
                /\ Len(ret.split) = args.nsplits + 1
                /\ join(args.needle, ret.split) = args.haystack
                /\ \A k \in 1..args.nsplits :
                       Occurrences(args.needle, ret.split[k]) = {}
            /\ Occurrences(<<BS>>, args.haystack) = {} =>
                   Len(located)
                       = Cardinality(Occurrences(args.needle, args.haystack))
    /\ (/\ pc \in {"parsed", "SyntaxError"}
        /\ Occurrences(<<BS>>, args.haystack) = {}
        /\ Cardinality(Occurrences(<<">">>, args.haystack)) > 1
        /\ args.haystack[1] # ">") =>
        LET first == Min(Occurrences(<<">">>, args.haystack))
            src == Slice(args.haystack, 0, first)
            dest == Slice(args.haystack, first + 1, Len(args.haystack))
        IN  /\ pc = "parsed"
            /\ template.ops = <<>>
            /\ template.paths = <<TemplatePath(src, dest)>>

\* 'a>a>a' split once around '>': two fields, the second one 'a>a'
C5_Witness ==
    /\ pc = "split"
    /\ args.nsplits = 1
    /\ args.needle = <<">">>
    /\ args.haystack = <<"a", ">", "a", ">", "a">>
    /\ ret = [ok |-> TRUE, split |-> <<<<"a">>, <<"a", ">", "a">>>>]

(***************************************************************************)
(* Template.execute_options on a Template built by Template(ops, paths).   *)
(***************************************************************************)
OptionNames == {<<"b">>, <<"b", "u", "i", "l", "d">>, <<"c">>}

OptionScripts == {<<"x">>, <<"y">>}

RequestNames == OptionNames \cup {<<"z">>}

Options ==
    {[names |-> N, script |-> s] :
        N \in (SUBSET OptionNames) \ {{}}, s \in OptionScripts}

wd == <<".">>

InitTemplate ==
    /\ pc = "ready"
    /\ args = [names |-> <<>>]
    /\ ret = [script |-> <<>>, system |-> FALSE, command |-> <<>>]
    /\ template \in {Template(ops, <<>>) :
                        ops \in UNION {[1..n -> Options] : n \in 0..MaxOps}}

ExecuteOptions ==
    /\ pc = "ready"
    /\ \E names \in UNION {[1..n -> RequestNames] : n \in 0..MaxRequest} :
        /\ args' = [names |-> names]
        /\ ret' = execute_options(template, names, wd)
    /\ pc' = "executed"
    /\ UNCHANGED template

NextTemplate == ExecuteOptions

SpecTemplate == InitTemplate /\ [][NextTemplate]_vars

\* the script bodies of the plan: the script list without its "cd" line
Bodies == Tail(ret.script)

(***************************************************************************)
(* C1  In one call of execute_options each Option's script body is emitted *)
(* at most once, also when several requested names belong to the same      *)
(* Option.  Stated for requests that name no name twice; an Option is told *)
(* by its script when no other Option of the template has the same script. *)
(***************************************************************************)
C1_NoRepeats ==
    (/\ pc = "executed"
     /\ \A m, n \in 1..Len(args.names) :
            m # n => args.names[m] # args.names[n]) =>
        \A k \in 1..Len(template.ops) :
            (\A j \in 1..Len(template.ops) :
                j # k => template.ops[j].script # template.ops[k].script)
            => Cardinality({n \in 1..Len(Bodies) :
                               Bodies[n] = template.ops[k].script}) <= 1

\* the requested names (by position) that some Option contains
Matched ==
    {n \in 1..Len(args.names) :
        \E k \in 1..Len(template.ops) : args.names[n] \in template.ops[k].names}

\* the first Option, in declaration order, that contains the nth name
FirstWith(n) ==
    Min({k \in 1..Len(template.ops) : args.names[n] \in template.ops[k].names})

MacroNames == {<<"a">>, <<"b">>}

\* definition lines: the name bare or followed by a blank, the value bare
\* or led by a blank
MacroDefinitionLines ==
    {n \o blank \o <<"=">> \o v :
        n \in MacroNames, blank \in {<<>>, <<" ">>},
        v \in {<<"1">>, <<"2">>, <<" ", "1">>}}

\* reference lines: a reference alone, after text, or after an escaped
\* parenthesis; with or without a comment
MacroReferenceLines ==
    {before \o <<"(">> \o n \o <<")">> \o after :
        before \in {<<>>, <<"x">>, <<BS, "(">>}, n \in MacroNames,
        after \in {<<>>, <<"#", "c">>}}

MacroLines == MacroDefinitionLines \cup MacroReferenceLines \cup {<<>>, <<"x">>}

InitMacro ==
    /\ pc = "preprocess"
    /\ args \in {[lines |-> ls] :
                    ls \in UNION {[1..n -> MacroLines] : n \in 0..MaxLines}}
    /\ ret = <<>>
    /\ template = Template(<<>>, <<>>)

Preprocess ==
    /\ pc = "preprocess"
    /\ ret' = preprocess(args.lines)
    /\ pc' = "preprocessed"
    /\ UNCHANGED <<args, template>>

NextMacro == Preprocess

SpecMacro == InitMacro /\ [][NextMacro]_vars

(***************************************************************************)
(* The template syntax as documented: comments, definition lines, fields.  *)
(***************************************************************************)
Max(S) == CHOOSE x \in S : \A y \in S : x >= y

\* the line up to its first unescaped '#'
Uncommented(line) ==
    LET i == FirstUnescaped(<<"#">>, line, 0)
    IN  IF i = -1 THEN line ELSE Slice(line, 0, i)

\* a definition line has an unescaped '='
IsDefinition(line) == FirstUnescaped(<<"=">>, Uncommented(line), 0) # -1

\* the text before and the text after the first unescaped '='
RawName(line) ==
    Slice(Uncommented(line), 0, FirstUnescaped(<<"=">>, Uncommented(line), 0))

RawDefinition(line) ==
    Slice(Uncommented(line),
          FirstUnescaped(<<"=">>, Uncommented(line), 0) + 1,
          Len(Uncommented(line)))

\* a component without its surrounding blanks, unescaped
Normal(component) == Unescaped(Trimmed(component, WHITESPACE))

RECURSIVE FieldsFrom(_, _, _)
\* the fields of string around every unescaped occurrence of needle
FieldsFrom(needle, string, from) ==
    LET i == FirstUnescaped(needle, string, from)
    IN  IF i = -1 THEN <<Slice(string, from, Len(string))>>
        ELSE <<Slice(string, from, i)>>
             \o FieldsFrom(needle, string, i + Len(needle))

Fields(needle, string) == FieldsFrom(needle, string, 0)

(***************************************************************************)
(* C7  Every reference '(name)' on a non-definition line is replaced by    *)
(* the definition of the last definition line for that name in the whole   *)
(* text, wherever that line stands.  Stated with the names and definitions *)
(* as written (no blank around the name), for a reference that is the only *)
(* unescaped parenthesis of its line.                                      *)
(***************************************************************************)
C7_LastDefinitionWins ==
    pc = "preprocessed" =>
        \A j, i \in 1..Len(args.lines) :
            (~IsDefinition(args.lines[j]) /\ IsDefinition(args.lines[i])) =>
                LET name == RawName(args.lines[i])
                    last == Max({d \in 1..Len(args.lines) :
                                    /\ IsDefinition(args.lines[d])
                                    /\ RawName(args.lines[d]) = name})
                    line == Uncommented(args.lines[j])
                    ref == <<"(">> \o name \o <<")">>
                IN  \A at \in UnescapedOccurrences(ref, line) :
                        LET before == Slice(line, 0, at)
                            after == Slice(line, at + Len(ref), Len(line))
                        IN  (/\ name = strip(name)
                             /\ UnescapedOccurrences(<<"(">>, before) = {}
                             /\ Occurrences(<<"(">>, after) = {})
                            => ret[j] = before
                                   \o RawDefinition(args.lines[last]) \o after

(***************************************************************************)
(* C8  A definition line records the name and the definition unescaped and *)
(* without their surrounding blanks: after 'name = value' the reference    *)
(* '(name)' expands to 'value'.                                            *)
(***************************************************************************)
C8_TrimmedDefinition ==
    pc = "preprocessed" =>
        \A j, i \in 1..Len(args.lines) :
            (~IsDefinition(args.lines[j]) /\ IsDefinition(args.lines[i])) =>
                LET name == Normal(RawName(args.lines[i]))
                    last == Max({d \in 1..Len(args.lines) :
                                    /\ IsDefinition(args.lines[d])
                                    /\ Normal(RawName(args.lines[d])) = name})
                IN  Uncommented(args.lines[j]) = <<"(">> \o name \o <<")">>
                    => ret[j] = Normal(RawDefinition(args.lines[last]))

(***************************************************************************)
(* TemplateParser.parse of a template text, then execute_options of one    *)
(* name on the parsed Template, as main does.                              *)
(***************************************************************************)
ParseAlphabet == {"a", "b", " ", ",", ":", ">", NL, BS}

ParseNames == {<<"a">>, <<"b">>}

InitParse ==
    /\ pc = "parse"
    /\ args \in {[string |-> s, names |-> <<>>] :
                    s \in Str(ParseAlphabet, MaxTextLen)}
    /\ ret = [script |-> <<>>, system |-> FALSE, command |-> <<>>]
    /\ template = Template(<<>>, <<>>)

Parse ==
    /\ pc = "parse"
    /\ LET r == parse(args.string)
       IN  /\ template' = r.template
           /\ pc' = IF r.raised = "" THEN "parsed" ELSE r.raised
    /\ UNCHANGED <<args, ret>>

ExecuteParsed ==
    /\ pc = "parsed"
    /\ \E name \in ParseNames :
        /\ args' = [args EXCEPT !.names = <<name>>]
        /\ ret' = execute_options(template, <<name>>, wd)
    /\ pc' = "executed"
    /\ UNCHANGED template

NextParse == Parse \/ ExecuteParsed

SpecParse == InitParse /\ [][NextParse]_vars

\* the lines of the text
Lines == Fields(linesep, args.string)

IsBlank(line) == Trimmed(line, WHITESPACE) = <<>>

\* an option line ends, once trimmed, in an unescaped ':' after some names
IsOptionLine(line) ==
    LET s == Trimmed(line, WHITESPACE)
    IN  /\ Len(s) > 1
        /\ s[Len(s)] = ":"
        /\ ~IsEscapedAt(s, Len(s) - 1)

\* the names of an option line, without their surrounding blanks
NamesOf(line) ==
    LET s == Trimmed(line, WHITESPACE)
        fields == Fields(<<",">>, Slice(s, 0, Len(s) - 1))
    IN  {Normal(fields[k]) : k \in 1..Len(fields)} \ {<<>>}

(***************************************************************************)
(* C3  Option block capture: for an option line followed by indented       *)
(* lines, parse builds one Option whose script body is these lines, each   *)
(* with its leading whitespace, joined by newline, and requesting any one  *)
(* of the comma-separated names (without its surrounding blanks) selects   *)
(* it.  Stated for a text that is one option line and its block, the only  *)
(* blanks of the option line following a comma, as in 'b, build:'.         *)
(***************************************************************************)
C3_OptionBlock ==
    (/\ pc \in {"parsed", "executed", "SyntaxError"}
     /\ IsOptionLine(Lines[1])
     /\ \A i \in 1..Len(Lines[1]) :
            Lines[1][i] \in WHITESPACE => (i > 1 /\ Lines[1][i - 1] = ",")
     /\ \A k \in 2..Len(Lines) :
            /\ ~IsBlank(Lines[k])
            /\ isspace(Lines[k][1])) =>
        LET body == join(linesep,
                         [k \in 1..(Len(Lines) - 1) |-> Unescaped(Lines[k + 1])])
        IN  /\ pc # "SyntaxError"
            /\ Len(template.ops) = 1
            /\ template.ops[1].script = body
            /\ (pc = "executed" /\ args.names[1] \in NamesOf(Lines[1]))
                   => Bodies = <<body>>

\* a path line is not blank, is no option line and does not start with '>'
IsPathLine(line) ==
    LET s == Trimmed(line, WHITESPACE)
    IN  /\ s # <<>>
        /\ ~(s[Len(s)] = ":" /\ ~IsEscapedAt(s, Len(s) - 1))
        /\ s[1] # ">"

\* the Path of a path line with at most one unescaped '>'
PathOf(line) ==
    LET s == Trimmed(line, WHITESPACE)
        at == FirstUnescaped(<<">">>, s, 0)
        src == Normal(Slice(s, 0, at))
        dest == Normal(Slice(s, at + 1, Len(s)))
    IN  IF at = -1 THEN TemplatePath(Normal(s), Normal(s))
        ELSE TemplatePath(src, IF dest = <<>> THEN src ELSE dest)

(***************************************************************************)
(* C4  Every line that is not blank, is no option line and does not start  *)
(* with '>' adds exactly one Path, in line order: with no unescaped '>',   *)
(* source and destination are the trimmed, unescaped line; with one, the   *)
(* trimmed, unescaped texts before and after it, an empty destination      *)
(* being the source.  Stated for a text whose lines all are such lines,    *)
(* with at most one unescaped '>' each.                                    *)
(***************************************************************************)
C4_PathLines ==
    (/\ pc \in {"parsed", "executed", "SyntaxError"}
     /\ \A k \in 1..Len(Lines) :
            /\ IsPathLine(Lines[k])
            /\ Cardinality(UnescapedOccurrences(<<">">>,
                   Trimmed(Lines[k], WHITESPACE))) <= 1) =>
        /\ pc # "SyntaxError"
        /\ template.paths
               = [k \in 1..Len(SelectSeq(Lines, IsPathLine)) |->
                     PathOf(SelectSeq(Lines, IsPathLine)[k])]

====
